---- MODULE Spec2Model ----
(***************************************************************************)
(* A model of sort_in_threads.py: the name normalizer, the collision       *)
(* resolver, the command-line check, and the two-pass run of sort_folder   *)
(* (level-by-level prepare_folder tasks, then move_files tasks) over a     *)
(* small filesystem.                                                       *)
(*                                                                         *)
(* A character is a one-token string; the non-ASCII letters are written    *)
(* with ASCII tokens ("a_ogonek" is U+0105, "S_acute" is U+015A, ...).     *)
(* A name is a sequence of characters, a path is a sequence of names       *)
(* relative to the directory given on the command line (<<>> is that       *)
(* directory itself).                                                      *)
(***************************************************************************)
EXTENDS Integers, Sequences, FiniteSets, TLC

VARIABLES
    norm,       \* the normalizer's input and its results
    dest,       \* one call of set_dest_path: its filesystem, arguments, result
    cli,        \* one call of get_path: argv and the outcome
    fs,         \* the filesystem below the sorted directory: path -> entry
    platform,   \* "posix" or "nt": decides what rename does on an existing target
    tree0,      \* the filesystem as it was before the first run
    run,        \* number of the current run of sort_folder (1 or 2)
    phase,      \* position of sort_folder
    subdirectories,            \* sort_folder's work list of the current level
    paths_and_files_to_sort,   \* sort_folder's accumulated {path: files} items
    tasks,      \* the tasks of the current ThreadPoolExecutor
    info_for_report,           \* what sort_folder returns
    level,      \* number of the level being scanned (0 is the root)
    hist        \* history: renames and scans performed, for the properties

vars == <<norm, dest, cli, fs, platform, tree0, run, phase, subdirectories,
          paths_and_files_to_sort, tasks, info_for_report, level, hist>>

runVars == <<fs, platform, tree0, run, phase, subdirectories,
             paths_and_files_to_sort, tasks, info_for_report, level, hist>>

-----------------------------------------------------------------------------
(* Characters *)

AsciiLower == {"a", "b", "c", "d", "e", "f", "g", "h", "i", "j", "k", "l", "m",
               "n", "o", "p", "q", "r", "s", "t", "u", "v", "w", "x", "y", "z"}

AsciiUpper == {"A", "B", "C", "D", "E", "F", "G", "H", "I", "J", "K", "L", "M",
               "N", "O", "P", "Q", "R", "S", "T", "U", "V", "W", "X", "Y", "Z"}

Digits == {"0", "1", "2", "3", "4", "5", "6", "7", "8", "9"}

\* The Polish letters with diacritics, and one other accented letter.
PolishLetters == {"a_ogonek", "A_ogonek", "c_acute", "C_acute", "e_ogonek",
                  "E_ogonek", "l_stroke", "L_stroke", "n_acute", "N_acute",
                  "o_acute", "O_acute", "s_acute", "S_acute", "z_acute",
                  "Z_acute", "z_dot", "Z_dot"}

OtherLetters == {"e_grave"}

\* Space, punctuation and the extension separator.
Punctuation == {" ", "-", "+", "(", ")", "."}

AsciiWord == AsciiLower \cup AsciiUpper \cup Digits \cup {"_"}

\* A table entry whose value is another key of the table.
polish_chars_slip(c) ==
    CASE c = "a_ogonek" -> "a"  [] c = "A_ogonek" -> "A"
      [] c = "c_acute"  -> "c"  [] c = "C_acute"  -> "C"
      [] c = "e_ogonek" -> "e"  [] c = "E_ogonek" -> "E"
      [] c = "l_stroke" -> "l"  [] c = "L_stroke" -> "L"
      [] c = "n_acute"  -> "n"  [] c = "N_acute"  -> "N"
      [] c = "o_acute"  -> "o"  [] c = "O_acute"  -> "O"
      [] c = "s_acute"  -> "s"  [] c = "S_acute"  -> "s_acute"
      [] c = "z_acute"  -> "z"  [] c = "Z_dot"    -> "Z"
      [] c = "z_dot"    -> "z"
      [] OTHER -> c

\* The translation table of normalize: the key "Z_dot" is written twice, the
\* key "Z_acute" is absent, and "S_acute" is mapped to itself.
polish_chars(c) ==
    CASE c = "a_ogonek" -> "a"  [] c = "A_ogonek" -> "A"
      [] c = "c_acute"  -> "c"  [] c = "C_acute"  -> "C"
      [] c = "e_ogonek" -> "e"  [] c = "E_ogonek" -> "E"
      [] c = "l_stroke" -> "l"  [] c = "L_stroke" -> "L"
      [] c = "n_acute"  -> "n"  [] c = "N_acute"  -> "N"
      [] c = "o_acute"  -> "o"  [] c = "O_acute"  -> "O"
      [] c = "s_acute"  -> "s"  [] c = "S_acute"  -> "S_acute"
      [] c = "z_acute"  -> "z"  [] c = "Z_dot"    -> "Z"
      [] c = "z_dot"    -> "z"
      [] OTHER -> c

\* str.translate: every character through the table.
translate(name) == [i \in 1..Len(name) |-> polish_chars(name[i])]

\* \w of a str pattern: Unicode letters and digits and the underscore.
IsWordChar(c) == c \in AsciiWord \cup PolishLetters \cup OtherLetters

RECURSIVE SkipNonWord(_)
SkipNonWord(s) ==
    IF s = <<>> \/ IsWordChar(Head(s)) THEN s ELSE SkipNonWord(Tail(s))

\* re.sub(r"\W+", "_", s): every maximal run of non-word characters
\* becomes one underscore.
RECURSIVE sub_non_word(_)
sub_non_word(s) ==
    IF s = <<>> THEN <<>>
    ELSE IF IsWordChar(Head(s)) THEN <<Head(s)>> \o sub_non_word(Tail(s))
    ELSE <<"_">> \o sub_non_word(SkipNonWord(Tail(s)))

normalize(name) == sub_non_word(translate(name))

-----------------------------------------------------------------------------
(* Paths and the filesystem *)

\* An entry of the filesystem: a directory or a file. id is the path the entry
\* had before the first run (what tells one file from another); an entry made
\* during a run has the id of what it was made from, with a mark appended.
Dir(id)  == [kind |-> "dir",  id |-> id]
File(id) == [kind |-> "file", id |-> id]

\* os.path.join(path, name)
join(path, name) == Append(path, name)

\* os.path.dirname(path), for a path below the sorted directory
dirname(path) == SubSeq(path, 1, Len(path) - 1)

\* os.path.basename(path)
basename(path) == path[Len(path)]

\* os.path.exists(path)
exists(f, path) == path \in DOMAIN f

\* os.path.isdir(path)
isdir(f, path) == path \in DOMAIN f /\ f[path].kind = "dir"

IsPrefix(p, q) == Len(p) <= Len(q) /\ SubSeq(q, 1, Len(p)) = p

\* The paths directly in directory d: os.listdir(d) / os.scandir(d)
Children(f, d) == {p \in DOMAIN f : Len(p) = Len(d) + 1 /\ dirname(p) = d}

\* str(i) for i >= 0
RECURSIVE Decimal(_)
Decimal(i) ==
    LET digit == CASE i % 10 = 0 -> "0" [] i % 10 = 1 -> "1"
                   [] i % 10 = 2 -> "2" [] i % 10 = 3 -> "3"
                   [] i % 10 = 4 -> "4" [] i % 10 = 5 -> "5"
                   [] i % 10 = 6 -> "6" [] i % 10 = 7 -> "7"
                   [] i % 10 = 8 -> "8" [] OTHER -> "9"
    IN  IF i < 10 THEN <<digit>> ELSE Decimal(i \div 10) \o <<digit>>

\* f"{file_name}_{i}"
Numbered(file_name, i) == file_name \o <<"_">> \o Decimal(i)

\* f"{path}{s}": the string s glued to the path string with no separator,
\* which names an entry beside path whose name is path's last name followed
\* by s. (set_dest_path is only called with a path that has a last name.)
Glue(path, s) == [path EXCEPT ![Len(path)] = @ \o s]

-----------------------------------------------------------------------------
(* set_dest_path *)

\* range(1, 1000000) stops before this number.
RangeStop == 1000000

\* The loop of set_dest_path from i on: the first i < stop for which the glued
\* string does not exist, or 0 when the range is exhausted without a break.
RECURSIVE FirstFree(_, _, _, _, _, _)
FirstFree(f, path, file_name, ext, i, stop) ==
    IF i >= stop THEN 0
    ELSE IF ~exists(f, Glue(path, Numbered(file_name, i) \o ext)) THEN i
    ELSE FirstFree(f, path, file_name, ext, i + 1, stop)

\* set_dest_path with the end of its range as a parameter.
SetDestPath(f, path, file_name, ext, stop) ==
    LET full_file_name == file_name \o ext
        i == IF exists(f, join(path, full_file_name))
             THEN FirstFree(f, path, file_name, ext, 1, stop)
             ELSE 0
        new_name == IF i > 0 THEN Numbered(file_name, i) ELSE file_name
    IN  join(path, new_name \o ext)

set_dest_path(f, path, file_name, ext) ==
    SetDestPath(f, path, file_name, ext, RangeStop)

-----------------------------------------------------------------------------
(* Categories and extensions *)

N_images    == <<"i", "m", "a", "g", "e", "s">>
N_video     == <<"v", "i", "d", "e", "o">>
N_documents == <<"d", "o", "c", "u", "m", "e", "n", "t", "s">>
N_audio     == <<"a", "u", "d", "i", "o">>
N_archives  == <<"a", "r", "c", "h", "i", "v", "e", "s">>
N_unsorted  == <<"u", "n", "s", "o", "r", "t", "e", "d">>

\* The names prepare_folder excludes.
ExcludedNames == {N_images, N_video, N_documents, N_audio, N_archives}

\* The keys of the dictionaries extensions and paths of move_files.
Categories == ExcludedNames \cup {N_unsorted}

\* The match statement with the extension of s.mp3 written in the case of video.
file_type_of_slip(ext) ==
    CASE ext \in {<<".", "j", "p", "e", "g">>, <<".", "p", "n", "g">>,
                  <<".", "j", "p", "g">>, <<".", "s", "v", "g">>} -> N_images
      [] ext \in {<<".", "a", "v", "i">>, <<".", "m", "p", "4">>,
                  <<".", "m", "o", "v">>, <<".", "m", "k", "v">>,
                  <<".", "m", "p", "3">>} -> N_video
      [] ext \in {<<".", "d", "o", "c">>, <<".", "d", "o", "c", "x">>,
                  <<".", "t", "x", "t">>, <<".", "p", "d", "f">>,
                  <<".", "x", "l", "s", "x">>, <<".", "p", "p", "t", "x">>}
            -> N_documents
      [] ext \in {<<".", "m", "p", "3">>, <<".", "o", "g", "g">>,
                  <<".", "w", "a", "v">>, <<".", "a", "m", "r">>} -> N_audio
      [] ext \in {<<".", "z", "i", "p">>, <<".", "g", "z">>,
                  <<".", "t", "a", "r">>} -> N_archives
      [] OTHER -> N_unsorted

\* The match statement with the extension of A.JPG matched without regard to
\* case.
file_type_of_caseless(ext) ==
    CASE ext \in {<<".", "j", "p", "e", "g">>, <<".", "p", "n", "g">>,
                  <<".", "j", "p", "g">>, <<".", "s", "v", "g">>,
                  <<".", "J", "P", "G">>} -> N_images
      [] ext \in {<<".", "a", "v", "i">>, <<".", "m", "p", "4">>,
                  <<".", "m", "o", "v">>, <<".", "m", "k", "v">>} -> N_video
      [] ext \in {<<".", "d", "o", "c">>, <<".", "d", "o", "c", "x">>,
                  <<".", "t", "x", "t">>, <<".", "p", "d", "f">>,
                  <<".", "x", "l", "s", "x">>, <<".", "p", "p", "t", "x">>}
            -> N_documents
      [] ext \in {<<".", "m", "p", "3">>, <<".", "o", "g", "g">>,
                  <<".", "w", "a", "v">>, <<".", "a", "m", "r">>} -> N_audio
      [] ext \in {<<".", "z", "i", "p">>, <<".", "g", "z">>,
                  <<".", "t", "a", "r">>} -> N_archives
      [] OTHER -> N_unsorted

\* The match statement of move_files: the category of an extension.
file_type_of(ext) ==
    CASE ext \in {<<".", "j", "p", "e", "g">>, <<".", "p", "n", "g">>,
                  <<".", "j", "p", "g">>, <<".", "s", "v", "g">>} -> N_images
      [] ext \in {<<".", "a", "v", "i">>, <<".", "m", "p", "4">>,
                  <<".", "m", "o", "v">>, <<".", "m", "k", "v">>} -> N_video
      [] ext \in {<<".", "d", "o", "c">>, <<".", "d", "o", "c", "x">>,
                  <<".", "t", "x", "t">>, <<".", "p", "d", "f">>,
                  <<".", "x", "l", "s", "x">>, <<".", "p", "p", "t", "x">>}
            -> N_documents
      [] ext \in {<<".", "m", "p", "3">>, <<".", "o", "g", "g">>,
                  <<".", "w", "a", "v">>, <<".", "a", "m", "r">>} -> N_audio
      [] ext \in {<<".", "z", "i", "p">>, <<".", "g", "z">>,
                  <<".", "t", "a", "r">>} -> N_archives
      [] OTHER -> N_unsorted

\* os.path.splitext(name): the extension starts at the last dot, unless only
\* dots come before it.
SplitAt(name) ==
    LET dots == {i \in 1..Len(name) : name[i] = "."}
        last == IF dots = {} THEN 0
                ELSE CHOOSE i \in dots : \A j \in dots : j <= i
    IN  IF last > 0 /\ \E k \in 1..(last - 1) : name[k] # "."
        THEN last ELSE Len(name) + 1

splitext_root(name) == SubSeq(name, 1, SplitAt(name) - 1)
splitext_ext(name)  == SubSeq(name, SplitAt(name), Len(name))

-----------------------------------------------------------------------------
(* Filesystem operations *)

Restrict(f, S) == [p \in S |-> f[p]]

\* f with path p (and, for a directory, everything below it) removed.
Without(f, p) == Restrict(f, {q \in DOMAIN f : ~IsPrefix(p, q)})

\* f with entry e put at path p.
With(f, p, e) == [q \in DOMAIN f \cup {p} |-> IF q = p THEN e ELSE f[q]]

Ok(f)       == [err |-> "", fs |-> f]
Raise(e, f) == [err |-> e, fs |-> f]

Prefixes(p) == {SubSeq(p, 1, k) : k \in 0..Len(p)}

\* os.makedirs(d): d and its missing ancestors become directories.
makedirs(f, d) ==
    IF \E q \in Prefixes(d) : q \in DOMAIN f /\ f[q].kind = "file"
    THEN Raise("NotADirectoryError", f)
    ELSE Ok([q \in DOMAIN f \cup Prefixes(d) |->
                IF q \in DOMAIN f THEN f[q] ELSE Dir(q \o <<<<"+">>>>)])

\* os.rmdir(d) of an existing directory
rmdir(f, d) ==
    IF Children(f, d) # {} THEN Raise("OSError", f) ELSE Ok(Without(f, d))

\* os.removedirs(d): d and then its ancestors are removed while they are
\* empty; the first failure ends it silently. The sorted directory itself is
\* where the model stops.
RECURSIVE removedirs(_, _)
removedirs(f, d) ==
    IF d = <<>> \/ ~isdir(f, d) \/ Children(f, d) # {} THEN f
    ELSE removedirs(Without(f, d), dirname(d))

\* The entries at and below old, put at and below new.
Moved(f, old, new) ==
    LET sub  == {q \in DOMAIN f : IsPrefix(old, q)}
        to(q) == new \o SubSeq(q, Len(old) + 1, Len(q))
        rest == Without(Without(f, old), new)
    IN  [q \in DOMAIN rest \cup {to(r) : r \in sub} |->
            IF \E r \in sub : to(r) = q
            THEN f[CHOOSE r \in sub : to(r) = q]
            ELSE rest[q]]

\* os.rename(old, new) on platform plat. On "nt" an existing new is refused
\* with FileExistsError; on "posix" a file silently replaces a file and an
\* empty directory is replaced by a directory.
rename(f, plat, old, new) ==
    IF ~exists(f, old) THEN Raise("FileNotFoundError", f)
    ELSE IF ~exists(f, dirname(new)) THEN Raise("FileNotFoundError", f)
    ELSE IF ~isdir(f, dirname(new)) THEN Raise("NotADirectoryError", f)
    ELSE IF ~exists(f, new) THEN Ok(Moved(f, old, new))
    ELSE IF plat = "nt" THEN Raise("FileExistsError", f)
    ELSE IF f[old].kind = "file" /\ f[new].kind = "file"
         THEN Ok(Moved(f, old, new))
    ELSE IF f[old].kind = "file" THEN Raise("IsADirectoryError", f)
    ELSE IF f[new].kind = "file" THEN Raise("NotADirectoryError", f)
    ELSE IF Children(f, new) = {} THEN Ok(Moved(f, old, new))
    ELSE Raise("OSError", f)

\* os.renames(old, new): the missing directories of new are made, old is
\* renamed, and the directories of old that are left empty are pruned.
renames(f, plat, old, new) ==
    LET head == dirname(new)
        made == IF ~exists(f, head) THEN makedirs(f, head) ELSE Ok(f)
        done == IF made.err # "" THEN made ELSE rename(made.fs, plat, old, new)
    IN  IF done.err # "" THEN done
        ELSE Ok(removedirs(done.fs, dirname(old)))

\* The member every archive of the model holds.
N_member == <<"m">>

EndsWith(name, suffix) ==
    /\ Len(suffix) <= Len(name)
    /\ SubSeq(name, Len(name) - Len(suffix) + 1, Len(name)) = suffix

\* The file name endings for which shutil has an unpacker registered.
UnpackExtensions ==
    {<<".", "t", "a", "r">>, <<".", "z", "i", "p">>,
     <<".", "t", "a", "r", ".", "g", "z">>, <<".", "t", "g", "z">>,
     <<".", "t", "a", "r", ".", "b", "z", "2">>, <<".", "t", "b", "z", "2">>,
     <<".", "t", "a", "r", ".", "x", "z">>, <<".", "t", "x", "z">>}

\* shutil finds the format of an archive from the ending of its file name.
HasUnpackFormat(name) == \E e \in UnpackExtensions : EndsWith(name, e)

UnknownFormat == "ReadError: Unknown archive format"

\* shutil.unpack_archive(filename, extract_dir) of a readable archive: a file
\* name with no registered ending is refused; otherwise the directories of
\* extract_dir are made as needed and the member is written into it, over a
\* member of an earlier extraction if there is one.
unpack_archive(f, filename, extract_dir) ==
    LET made   == IF exists(f, extract_dir) /\ isdir(f, extract_dir)
                  THEN Ok(f) ELSE makedirs(f, extract_dir)
        target == join(extract_dir, N_member)
    IN  IF ~HasUnpackFormat(basename(filename)) THEN Raise(UnknownFormat, f)
        ELSE IF ~exists(f, filename) THEN Raise("FileNotFoundError", f)
        ELSE IF made.err # "" THEN made
        ELSE IF isdir(made.fs, target) THEN Raise("IsADirectoryError", made.fs)
        ELSE Ok(With(made.fs, target, File(f[filename].id \o <<<<"*">>>>)))

-----------------------------------------------------------------------------
(* Tasks of sort_folder *)

\* A directory entry as os.scandir snapshots it.
FileEntry(f, p) == [name |-> basename(p), is_dir |-> f[p].kind = "dir"]

EmptyExtensions == [c \in Categories |-> {}]
EmptyPaths      == [c \in Categories |-> <<>>]

\* One call of prepare_folder or move_files with its local variables:
\*   items: what is left of folder_items (prepare_folder);
\*   subs, files: subdirectories and files of prepare_folder; in a move_files
\*     task files is what is left of the list it was given;
\*   unpacked: the archive at the head of files has been extracted;
\*   extensions, paths: the dictionaries of move_files.
NewTask(fn, arg, files) ==
    [fn |-> fn, arg |-> arg, st |-> "pending", err |-> "", items |-> <<>>,
     subs |-> <<>>, files |-> files, unpacked |-> FALSE,
     extensions |-> EmptyExtensions, paths |-> EmptyPaths]

\* All orders in which a scan can return the entries S.
RECURSIVE Orders(_)
Orders(S) ==
    IF S = {} THEN {<<>>}
    ELSE UNION {{<<x>> \o o : o \in Orders(S \ {x})} : x \in S}

\* No directory name is excluded.
IsExcludedNever(name) == FALSE

\* The test "item.name in [images, video, documents, audio, archives]".
IsExcluded(name) == name \in ExcludedNames

\* One iteration of the loop of prepare_folder over folder_items, for task t
\* on filesystem f: the new filesystem and the new task.
PrepareItem(f, t) ==
    LET item == Head(t.items)
        rest == Tail(t.items)
        p    == join(t.arg, item.name)
        fin(u) == IF rest = <<>> THEN [u EXCEPT !.st = "done"] ELSE u
    IN  IF ~item.is_dir
        THEN [fs |-> f,
              task |-> fin([t EXCEPT !.items = rest,
                                     !.files = Append(@, item)])]
        ELSE IF ~isdir(f, p)
        THEN [fs |-> f,
              task |-> [t EXCEPT !.st = "failed", !.err = "FileNotFoundError"]]
        ELSE
        LET f1 == IF Children(f, p) = {} THEN rmdir(f, p).fs ELSE f
            dir_name == normalize(item.name)
            dir_path == join(t.arg, dir_name)
        IN  IF IsExcluded(item.name)
            THEN [fs |-> f1, task |-> fin([t EXCEPT !.items = rest])]
            ELSE IF dir_name # item.name
            \* set_dest_path is called with one argument when a collected
            \* file has the new name, os.renames with one argument otherwise:
            \* both raise TypeError, which is not caught.
            THEN [fs |-> f1,
                  task |-> [t EXCEPT !.st = "failed", !.err = "TypeError"]]
            ELSE [fs |-> f1,
                  task |-> fin([t EXCEPT !.items = rest,
                                         !.subs = Append(@, dir_path)])]

\* The record move_files appends to paths[file_type]: the text before
\* "has moved to:" and the destination (<<>> for an unsorted file, whose
\* record is the first path alone).
PathRecord(path, file_type, name, dest_path) ==
    [from |-> join(join(path, file_type), name), to |-> dest_path]

\* One iteration of the loop of move_files from the call of set_dest_path on
\* (what comes after the match statement), for task t on filesystem f, with
\* the end of the range of set_dest_path as a parameter.
MoveItemStop(f, plat, t, stop) ==
    LET file      == Head(t.files)
        rest      == Tail(t.files)
        path      == t.arg
        ext       == splitext_ext(file.name)
        file_name == normalize(splitext_root(file.name))
        file_type == file_type_of(ext)
        fin(u)    == IF rest = <<>> THEN [u EXCEPT !.st = "done"] ELSE u
        next      == [t EXCEPT !.files = rest, !.unpacked = FALSE]
        dest_path == IF file_type = N_unsorted THEN <<>>
                     ELSE SetDestPath(f, join(path, file_type), file_name, ext,
                                      stop)
        res       == IF file_type = N_unsorted THEN Ok(f)
                     ELSE renames(f, plat, join(path, file.name), dest_path)
        recorded  == [next EXCEPT
                        !.paths[file_type] =
                            Append(@, PathRecord(path, file_type, file.name,
                                                 dest_path)),
                        !.extensions[file_type] = @ \cup {ext}]
    IN  IF res.err = "FileExistsError"
        THEN [fs |-> res.fs, task |-> fin(next), dest |-> dest_path]
        ELSE IF res.err # ""
        THEN [fs |-> res.fs,
              task |-> [t EXCEPT !.st = "failed", !.err = res.err],
              dest |-> dest_path]
        ELSE [fs |-> res.fs, task |-> fin(recorded), dest |-> dest_path]

\* The same with the range of the source.
MoveItem(f, plat, t) == MoveItemStop(f, plat, t, RangeStop)

-----------------------------------------------------------------------------
(* The trees the runs start from *)

Frag(p, k) == [p |-> p, k |-> k]

F_ab1 == <<"a", " ", "b", ".", "j", "p", "g">>
F_ab2 == <<"a", "-", "b", ".", "j", "p", "g">>
F_ab3 == <<"a", "+", "b", ".", "j", "p", "g">>
F_ab  == <<"a", "_", "b", ".", "j", "p", "g">>
F_ab_1 == <<"a", "_", "b", "_", "1", ".", "j", "p", "g">>
F_v   == <<"v", ".", "m", "p", "4">>
F_d   == <<"d", ".", "t", "x", "t">>
F_s   == <<"s", ".", "m", "p", "3">>
F_n   == <<"n", " ", "n", ".", "z", "i", "p">>
F_g   == <<"g", ".", "g", "z">>
F_xy  == <<"x", " ", "y">>
F_AJ  == <<"A", ".", "J", "P", "G">>
D_sub  == <<"s", "u", "b">>
D_deep == <<"d", "e", "e", "p">>
D_old  == <<"o", "l", "d", "_", "e", "m", "p", "t", "y">>
D_my   == <<"m", "y", " ", "d", "i", "r">>
D_two  == <<"t", "w", "o">>

\* What can stand directly in the sorted directory: a file, or a directory
\* with what it holds.
RootFiles == {F_ab1, F_ab2, F_ab3, F_v, F_n, F_g, F_xy, F_AJ, N_images}

RootOptions ==
    {{Frag(<<n>>, "file")} : n \in RootFiles}
    \cup
    { {Frag(<<D_sub>>, "dir"), Frag(<<D_sub, F_ab1>>, "file"),
       Frag(<<D_sub, F_xy>>, "file")},
      {Frag(<<D_sub>>, "dir"), Frag(<<D_sub, D_deep>>, "dir"),
       Frag(<<D_sub, D_deep, F_d>>, "file")},
      {Frag(<<D_sub>>, "dir"), Frag(<<D_sub, N_images>>, "dir")},
      {Frag(<<D_sub>>, "dir"), Frag(<<D_sub, N_images>>, "dir"),
       Frag(<<D_sub, N_images, F_ab>>, "file"), Frag(<<D_sub, F_ab2>>, "file")},
      {Frag(<<D_two>>, "dir"), Frag(<<D_two, N_video>>, "dir")},
      {Frag(<<D_old>>, "dir")},
      {Frag(<<D_my>>, "dir"), Frag(<<D_my, F_d>>, "file")},
      {Frag(<<N_images>>, "dir")},
      {Frag(<<N_images>>, "dir"), Frag(<<N_images, F_ab>>, "file")},
      {Frag(<<N_images>>, "dir"), Frag(<<N_images, F_ab>>, "file"),
       Frag(<<N_images, F_ab_1>>, "file")},
      {Frag(<<N_documents>>, "dir"), Frag(<<N_documents, F_d>>, "file"),
       Frag(<<N_documents, D_deep>>, "dir"),
       Frag(<<N_documents, D_deep, F_s>>, "file")} }

\* The name an option puts in the sorted directory.
RootName(o) == (CHOOSE g \in o : Len(g.p) = 1).p

\* The most entries the sorted directory starts with.
MaxEntries == 3

\* The files of the round trip: one of each category.
RoundTripFiles == {F_ab1, F_v, F_d, F_s, F_n}

\* The most unsorted files beside the files of the round trip.
MaxExtra == 1

RoundTripChoices ==
    {{{Frag(<<n>>, "file")} : n \in RoundTripFiles \cup U} :
        U \in {V \in SUBSET {F_xy, N_images} : Cardinality(V) <= MaxExtra}}

Choices ==
    {C \in SUBSET RootOptions :
        /\ Cardinality(C) <= MaxEntries
        /\ \A o1, o2 \in C : o1 # o2 => RootName(o1) # RootName(o2)}
    \cup RoundTripChoices

\* The filesystem made of a choice of options; the id of an entry is its path.
TreeOf(C) ==
    LET frags == UNION C
    IN  [q \in {<<>>} \cup {g.p : g \in frags} |->
            IF q = <<>> THEN Dir(<<>>)
            ELSE IF (CHOOSE g \in frags : g.p = q).k = "dir"
                 THEN Dir(q) ELSE File(q)]

Trees == {TreeOf(C) : C \in Choices}

-----------------------------------------------------------------------------
(* sort_folder *)

\* What the properties need to know of the past:
\*   scanned:   <<run, path>> of every os.scandir of prepare_folder;
\*   rescanned: some path was scanned twice in one run;
\*   deleted:   <<run, path>> of every directory removed by os.rmdir;
\*   onto:      the renames performed while their destination existed;
\*   moves:     the renames that moved a file;
\*   fs1:       the filesystem as the first run left it (<<>> before that);
\*   writes:    <<i, d>> for every directory d in which task i of the current
\*              pool has made, removed or replaced an entry;
\*   fsSort:    the filesystem as it was when the current run made its
\*              move_files tasks (<<>> before that).
NoHist ==
    [scanned |-> {}, rescanned |-> FALSE, deleted |-> {}, onto |-> {},
     moves |-> {}, fs1 |-> <<>>, writes |-> {}, fsSort |-> <<>>]

\* The directories in which filesystem g differs from filesystem f: an entry
\* of theirs is in one and not in the other, or is not the same in both.
Written(f, g) ==
    {dirname(q) : q \in {x \in (DOMAIN f \cup DOMAIN g) \ {<<>>} :
                            \/ x \notin DOMAIN f
                            \/ x \notin DOMAIN g
                            \/ f[x] # g[x]}}

RootTask == NewTask("prepare_folder", <<>>, <<>>)

IdleNorm == [name |-> <<>>, once |-> <<>>, twice |-> <<>>, pc |-> "idle"]
IdleDest == [pc |-> "idle"]
IdleCli  == [pc |-> "idle"]

IdleRun ==
    /\ fs = <<>> /\ platform = "posix" /\ tree0 = <<>> /\ run = 0
    /\ phase = "idle" /\ subdirectories = <<>>
    /\ paths_and_files_to_sort = <<>> /\ tasks = <<>>
    /\ info_for_report = <<>> /\ level = 0 /\ hist = NoHist

Init ==
    /\ norm = IdleNorm /\ dest = IdleDest /\ cli = IdleCli
    /\ tree0 \in Trees
    /\ fs = tree0
    /\ platform \in {"posix", "nt"}
    /\ run = 1
    /\ phase = "root"
    /\ subdirectories = <<>>
    /\ paths_and_files_to_sort = <<>>
    /\ tasks = <<RootTask>>
    /\ info_for_report = <<>>
    /\ level = 0
    /\ hist = NoHist

Idx == DOMAIN tasks

\* prepare_folder begins: os.scandir(path) snapshots the entries in some
\* order, or fails when path is no directory any more.
StartPrepare(i) ==
    /\ tasks[i].fn = "prepare_folder" /\ tasks[i].st = "pending"
    /\ LET path == tasks[i].arg IN
       /\ hist' = [hist EXCEPT
                     !.scanned = @ \cup {<<run, path>>},
                     !.rescanned = @ \/ <<run, path>> \in hist.scanned]
       /\ IF ~isdir(fs, path)
          THEN tasks' = [tasks EXCEPT ![i].st = "failed",
                                      ![i].err = "FileNotFoundError"]
          ELSE \E order \in Orders(Children(fs, path)) :
                 tasks' = [tasks EXCEPT
                    ![i].items = [k \in 1..Len(order) |-> FileEntry(fs, order[k])],
                    ![i].st = IF order = <<>> THEN "done" ELSE "running"]
    /\ UNCHANGED <<norm, dest, cli, fs, platform, tree0, run, phase,
                   subdirectories, paths_and_files_to_sort, info_for_report,
                   level>>

\* prepare_folder handles the next entry of folder_items.
PrepareStep(i) ==
    /\ tasks[i].fn = "prepare_folder" /\ tasks[i].st = "running"
    /\ \E r \in {PrepareItem(fs, tasks[i])} :
       /\ fs' = r.fs
       /\ tasks' = [tasks EXCEPT ![i] = r.task]
       /\ hist' = [hist EXCEPT
                     !.deleted = @ \cup {<<run, q>> : q \in DOMAIN fs \ DOMAIN r.fs},
                     !.writes = @ \cup {<<i, d>> : d \in Written(fs, r.fs)}]
    /\ UNCHANGED <<norm, dest, cli, platform, tree0, run, phase,
                   subdirectories, paths_and_files_to_sort, info_for_report,
                   level>>

\* move_files begins: no file of its list has been handled.
StartMove(i) ==
    /\ tasks[i].fn = "move_files" /\ tasks[i].st = "pending"
    /\ tasks' = [tasks EXCEPT
                   ![i].st = IF tasks[i].files = <<>> THEN "done" ELSE "running"]
    /\ UNCHANGED <<norm, dest, cli, fs, platform, tree0, run, phase,
                   subdirectories, paths_and_files_to_sort, info_for_report,
                   level, hist>>

\* The file at the head of the list of task i is an archive not yet extracted.
AtArchive(i) ==
    /\ tasks[i].fn = "move_files" /\ tasks[i].st = "running"
    /\ file_type_of(splitext_ext(Head(tasks[i].files).name)) = N_archives
    /\ ~tasks[i].unpacked

\* The archive case of the match statement: shutil.unpack_archive extracts
\* the file, still at its original path, into archives/<normalized name>.
Unpack(i) ==
    /\ AtArchive(i)
    /\ \E file \in {Head(tasks[i].files)} :
       \E r \in {unpack_archive(fs, join(tasks[i].arg, file.name),
                     join(join(tasks[i].arg, N_archives),
                          normalize(splitext_root(file.name))))} :
           /\ fs' = r.fs
           /\ tasks' = IF r.err = ""
                       THEN [tasks EXCEPT ![i].unpacked = TRUE]
                       ELSE [tasks EXCEPT ![i].st = "failed", ![i].err = r.err]
           /\ hist' = [hist EXCEPT
                         !.writes = @ \cup {<<i, d>> : d \in Written(fs, r.fs)}]
    /\ UNCHANGED <<norm, dest, cli, platform, tree0, run, phase,
                   subdirectories, paths_and_files_to_sort, info_for_report,
                   level>>

\* shutil.unpack_archive cannot read the file (its content is no archive of
\* the format its name announces): it raises ReadError, which is not caught.
UnpackFails(i) ==
    /\ AtArchive(i)
    /\ HasUnpackFormat(Head(tasks[i].files).name)
    /\ tasks' = [tasks EXCEPT ![i].st = "failed", ![i].err = "ReadError"]
    /\ UNCHANGED <<norm, dest, cli, fs, platform, tree0, run, phase,
                   subdirectories, paths_and_files_to_sort, info_for_report,
                   level, hist>>

\* move_files moves and records the file at the head of its list.
MoveStep(i) ==
    /\ tasks[i].fn = "move_files" /\ tasks[i].st = "running"
    /\ ~AtArchive(i)
    /\ \E r \in {MoveItem(fs, platform, tasks[i])} :
       LET file == Head(tasks[i].files)
           old  == join(tasks[i].arg, file.name)
           called == r.dest # <<>>
       IN  /\ fs' = r.fs
           /\ tasks' = [tasks EXCEPT ![i] = r.task]
           /\ hist' = [hist EXCEPT
                 !.onto = IF called /\ exists(fs, r.dest) /\ r.fs # fs
                          THEN @ \cup {[run |-> run, old |-> old, new |-> r.dest]}
                          ELSE @,
                 !.moves = IF called /\ exists(fs, old) /\ ~exists(r.fs, old)
                           THEN @ \cup {[run |-> run, id |-> fs[old].id,
                                         old |-> old, new |-> r.dest]}
                           ELSE @,
                 !.writes = @ \cup {<<i, d>> : d \in Written(fs, r.fs)}]
    /\ UNCHANGED <<norm, dest, cli, platform, tree0, run, phase,
                   subdirectories, paths_and_files_to_sort, info_for_report,
                   level>>

\* The result iterator of executor.map has met a failed task (every task
\* before it is done) and cancels the tasks no worker has taken yet.
Cancel(i) ==
    /\ phase \in {"levels", "sort"}
    /\ tasks[i].st = "pending"
    /\ \E k \in Idx : /\ k < i
                      /\ tasks[k].st = "failed"
                      /\ \A j \in 1..(k - 1) : tasks[j].st = "done"
    /\ tasks' = [tasks EXCEPT ![i].st = "cancelled"]
    /\ UNCHANGED <<norm, dest, cli, fs, platform, tree0, run, phase,
                   subdirectories, paths_and_files_to_sort, info_for_report,
                   level, hist>>

RECURSIVE Flatten(_)
Flatten(ss) == IF ss = <<>> THEN <<>> ELSE Head(ss) \o Flatten(Tail(ss))

MoveTasks(pfs) ==
    [k \in 1..Len(pfs) |-> NewTask("move_files", pfs[k].path, pfs[k].files)]

PrepareTasks(subs) ==
    [k \in 1..Len(subs) |-> NewTask("prepare_folder", subs[k], <<>>)]

\* Every task of the pool has been taken by a worker.
AllStarted == \A i \in Idx : tasks[i].st # "pending"

\* list(executor.map(...)) has every result (and the root scan has returned).
AllDone == \A i \in Idx : tasks[i].st = "done"

\* The scans of one level (or of the root) are done: their results are
\* gathered, and the next level's pool is made, or, when no subdirectory is
\* left, the pool of the move_files tasks.
Gather ==
    /\ phase \in {"root", "levels"}
    /\ AllDone
    /\ LET subs == Flatten([k \in Idx |-> tasks[k].subs])
           pfs  == paths_and_files_to_sort \o
                   [k \in Idx |-> [path |-> tasks[k].arg, files |-> tasks[k].files]]
       IN  /\ subdirectories' = subs
           /\ paths_and_files_to_sort' = pfs
           /\ IF subs # <<>>
              THEN /\ phase' = "levels"
                   /\ level' = level + 1
                   /\ tasks' = PrepareTasks(subs)
              ELSE /\ phase' = "sort"
                   /\ level' = level
                   /\ tasks' = MoveTasks(pfs)
           /\ hist' = [hist EXCEPT
                         !.writes = {},
                         !.fsSort = IF subs # <<>> THEN @ ELSE fs]
    /\ UNCHANGED <<norm, dest, cli, fs, platform, tree0, run, info_for_report>>

\* Every move_files task is done: sort_folder returns their results.
Return ==
    /\ phase = "sort"
    /\ AllDone
    /\ phase' = "returned"
    /\ info_for_report' = [k \in Idx |->
            [extensions |-> tasks[k].extensions, paths |-> tasks[k].paths,
             path |-> tasks[k].arg]]
    /\ tasks' = <<>>
    /\ UNCHANGED <<norm, dest, cli, fs, platform, tree0, run, subdirectories,
                   paths_and_files_to_sort, level, hist>>

\* A task has raised and no task is running or waiting any more: the
\* exception leaves sort_folder and ends the program.
Abort ==
    /\ phase \in {"root", "levels", "sort"}
    /\ \E i \in Idx : tasks[i].st = "failed"
    /\ \A i \in Idx : tasks[i].st \in {"done", "failed", "cancelled"}
    /\ phase' = "aborted"
    /\ UNCHANGED <<norm, dest, cli, fs, platform, tree0, run, subdirectories,
                   paths_and_files_to_sort, tasks, info_for_report, level, hist>>

\* The program is started a second time on the directory the first run sorted.
SecondRun ==
    /\ phase = "returned" /\ run = 1
    /\ run' = 2
    /\ phase' = "root"
    /\ tasks' = <<RootTask>>
    /\ subdirectories' = <<>>
    /\ paths_and_files_to_sort' = <<>>
    /\ info_for_report' = <<>>
    /\ level' = 0
    /\ hist' = [hist EXCEPT !.fs1 = fs, !.writes = {}, !.fsSort = <<>>]
    /\ UNCHANGED <<norm, dest, cli, fs, platform, tree0>>

Next ==
    \/ \E i \in Idx : StartPrepare(i)
    \/ \E i \in Idx : PrepareStep(i)
    \/ \E i \in Idx : StartMove(i)
    \/ \E i \in Idx : Unpack(i)
    \/ \E i \in Idx : UnpackFails(i)
    \/ \E i \in Idx : MoveStep(i)
    \/ \E i \in Idx : Cancel(i)
    \/ Gather
    \/ Return
    \/ Abort
    \/ SecondRun

Spec == Init /\ [][Next]_vars

\* The most entries the sorted directory starts with in the runs that are
\* followed to their end.
MaxLiveEntries == 2

LiveTrees == {TreeOf(C) : C \in {D \in Choices : Cardinality(D) <= MaxLiveEntries}}

InitLive == Init /\ tree0 \in LiveTrees

\* The workers of a pool and the thread of sort_folder go on as long as a
\* step is left to take.
SpecLive == InitLive /\ [][Next]_vars /\ WF_vars(Next)

-----------------------------------------------------------------------------
(* normalize on its own *)

\* The longest name given to normalize.
MaxNameLen == 3

\* ASCII letters, a digit, the underscore, space and punctuation, Polish
\* letters of the table (and the one it lacks), another accented letter.
NameAlphabet == {"a", "Z", "7", "_", " ", "-", ".", "a_ogonek", "l_stroke",
                 "s_acute", "S_acute", "Z_acute", "Z_dot", "e_grave"}

Strings(A, n) == UNION {[1..k -> A] : k \in 0..n}

InitNorm ==
    /\ norm \in {[name |-> x, once |-> <<>>, twice |-> <<>>, pc |-> "start"] :
                    x \in Strings(NameAlphabet, MaxNameLen)}
    /\ dest = IdleDest /\ cli = IdleCli
    /\ IdleRun

\* normalize(name)
NormalizeOnce ==
    /\ norm.pc = "start"
    /\ norm' = [norm EXCEPT !.once = normalize(norm.name), !.pc = "once"]
    /\ UNCHANGED <<dest, cli>> /\ UNCHANGED runVars

\* normalize(normalize(name))
NormalizeTwice ==
    /\ norm.pc = "once"
    /\ norm' = [norm EXCEPT !.twice = normalize(norm.once), !.pc = "twice"]
    /\ UNCHANGED <<dest, cli>> /\ UNCHANGED runVars

NextNorm == NormalizeOnce \/ NormalizeTwice

SpecNorm == InitNorm /\ [][NextNorm]_vars

-----------------------------------------------------------------------------
(* set_dest_path on its own *)

\* The highest numbered variant a destination directory starts with.
MaxVariant == 3

B_ab == <<"a", "_", "b">>
E_jpg == <<".", "j", "p", "g">>

\* The destination directory images, holding any of a_b<ext> and its numbered
\* variants, inside a directory that may hold entries whose names begin with
\* "images".
DestTrees(ext) ==
    LET T == <<N_images>>
        inside == {join(T, B_ab \o ext)} \cup
                  {join(T, Numbered(B_ab, k) \o ext) : k \in 1..MaxVariant}
        beside == {Glue(T, Numbered(B_ab, k) \o ext) : k \in 1..2}
    IN  {[q \in {<<>>, T} \cup I \cup O |->
            IF q \in {<<>>, T} THEN Dir(q) ELSE File(q)] :
         I \in SUBSET inside, O \in SUBSET beside}

InitDest ==
    /\ \E ext \in {E_jpg, <<>>} : \E f \in DestTrees(ext) :
         dest = [fs |-> f, path |-> <<N_images>>, file_name |-> B_ab,
                 ext |-> ext, result |-> <<>>, pc |-> "start"]
    /\ norm = IdleNorm /\ cli = IdleCli
    /\ IdleRun

CallSetDestPath ==
    /\ dest.pc = "start"
    /\ dest' = [dest EXCEPT
                  !.result = set_dest_path(dest.fs, dest.path, dest.file_name,
                                           dest.ext),
                  !.pc = "returned"]
    /\ UNCHANGED <<norm, cli>> /\ UNCHANGED runVars

NextDest == CallSetDestPath

SpecDest == InitDest /\ [][NextDest]_vars

-----------------------------------------------------------------------------
(* move_files with a short range in set_dest_path *)

\* The end of the range of set_dest_path taken for the runs below:
\* range(1, AttemptStop) tries the numbers below AttemptStop.
AttemptStop == 3

\* A directory that holds "a b.jpg" and v.mp4, the directory images with any
\* of a_b.jpg and its numbered variants up to AttemptStop in it, and any of
\* the entries beside images whose names are "images" followed by a numbered
\* variant.
ExhaustTrees ==
    LET T == <<N_images>>
        inside == {join(T, B_ab \o E_jpg)} \cup
                  {join(T, Numbered(B_ab, k) \o E_jpg) : k \in 1..AttemptStop}
        beside == {Glue(T, Numbered(B_ab, k) \o E_jpg) :
                      k \in 1..(AttemptStop - 1)}
    IN  {[q \in {<<>>, T, <<F_ab1>>, <<F_v>>} \cup I \cup O |->
            IF q \in {<<>>, T} THEN Dir(q) ELSE File(q)] :
         I \in SUBSET inside, O \in SUBSET beside}

\* move_files is given the directory with the files "a b.jpg" and v.mp4, in
\* that order; called counts the renames called on an existing destination.
InitExhaust ==
    /\ \E f \in ExhaustTrees : \E plat \in {"posix", "nt"} :
         dest = [pc |-> "move_files", fs0 |-> f, fs |-> f, plat |-> plat,
                 task |-> [NewTask("move_files", <<>>,
                                   <<FileEntry(f, <<F_ab1>>),
                                     FileEntry(f, <<F_v>>)>>)
                           EXCEPT !.st = "running"],
                 dests |-> <<>>, onto |-> 0]
    /\ norm = IdleNorm /\ cli = IdleCli
    /\ IdleRun

\* move_files handles the next file of its list.
MoveBounded ==
    /\ dest.pc = "move_files" /\ dest.task.st = "running"
    /\ LET r == MoveItemStop(dest.fs, dest.plat, dest.task, AttemptStop) IN
       dest' = [dest EXCEPT
                  !.fs = r.fs, !.task = r.task,
                  !.dests = Append(@, r.dest),
                  !.onto = IF exists(dest.fs, r.dest) THEN @ + 1 ELSE @]
    /\ UNCHANGED <<norm, cli>> /\ UNCHANGED runVars

NextExhaust == MoveBounded

SpecExhaust == InitExhaust /\ [][NextExhaust]_vars

-----------------------------------------------------------------------------
(* get_path *)

\* A command-line path is a string: a sequence of characters with "/" between
\* its names. The program runs in the directory /t, which holds the directory
\* d and the file f; below, a resolved path is the sequence of its names
\* from "/".
Cwd == <<<<"t">>>>

WorldDirs  == {<<>>, <<<<"t">>>>, <<<<"t">>, <<"d">>>>}
WorldFiles == {<<<<"t">>, <<"f">>>>}

\* The names of a path string, in order ("" and "." name nothing).
RECURSIVE NamesOf(_, _)
NamesOf(s, cur) ==
    LET done == IF cur = <<>> \/ cur = <<".">> THEN <<>> ELSE <<cur>>
    IN  IF s = <<>> THEN done
        ELSE IF Head(s) = "/" THEN done \o NamesOf(Tail(s), <<>>)
        ELSE NamesOf(Tail(s), Append(cur, Head(s)))

Resolved(s) ==
    IF s # <<>> /\ Head(s) = "/" THEN NamesOf(s, <<>>)
    ELSE Cwd \o NamesOf(s, <<>>)

\* os.path.isdir(s) and os.path.exists(s) in that world; the empty string
\* names nothing, and a file followed by "/" names nothing.
world_isdir(s) == s # <<>> /\ Resolved(s) \in WorldDirs

world_exists(s) ==
    \/ world_isdir(s)
    \/ s # <<>> /\ s[Len(s)] # "/" /\ Resolved(s) \in WorldFiles

\* os.path.dirname(s): s up to its last "/", without the slashes that end
\* it unless it is made of slashes only.
RECURSIVE RStripSlash(_)
RStripSlash(s) ==
    IF s # <<>> /\ s[Len(s)] = "/" THEN RStripSlash(SubSeq(s, 1, Len(s) - 1))
    ELSE s

str_dirname(s) ==
    LET slashes == {i \in 1..Len(s) : s[i] = "/"}
        i == IF slashes = {} THEN 0
             ELSE CHOOSE k \in slashes : \A j \in slashes : j <= k
        head == SubSeq(s, 1, i)
    IN  IF RStripSlash(head) = <<>> THEN head ELSE RStripSlash(head)

\* get_path for the arguments after the program's name: exit (sys.exit with a
\* message) or the path it returns.
get_path(args) ==
    IF Len(args) + 1 < 2 THEN [exit |-> TRUE, msg |-> "too few", path |-> <<>>]
    ELSE IF Len(args) + 1 > 2
    THEN [exit |-> TRUE, msg |-> "too many", path |-> <<>>]
    ELSE LET folder_path == args[1] IN
         IF world_exists(str_dirname(folder_path)) /\ world_isdir(folder_path)
         THEN [exit |-> FALSE, msg |-> "", path |-> folder_path]
         ELSE [exit |-> TRUE, msg |-> "not a proper folder path", path |-> <<>>]

\* The most arguments on the command line.
MaxArgs == 2

ArgPaths == { <<"d">>, <<".", "/", "d">>, <<"/", "t", "/", "d">>,
              <<"d", "/">>, <<".">>, <<"/">>, <<"/", "t">>,
              <<"f">>, <<"/", "t", "/", "f">>, <<"x">>, <<"/", "t", "/", "x">>,
              <<"x", "/", "d">>, <<>> }

InitCli ==
    /\ cli \in {[args |-> a, pc |-> "start",
                 out |-> [exit |-> FALSE, msg |-> "", path |-> <<>>]] :
                    a \in Strings(ArgPaths, MaxArgs)}
    /\ norm = IdleNorm /\ dest = IdleDest
    /\ IdleRun

CallGetPath ==
    /\ cli.pc = "start"
    /\ cli' = [cli EXCEPT !.out = get_path(cli.args), !.pc = "done"]
    /\ UNCHANGED <<norm, dest>> /\ UNCHANGED runVars

NextCli == CallGetPath

SpecCli == InitCli /\ [][NextCli]_vars

-----------------------------------------------------------------------------
(* Properties of set_dest_path (SpecDest) *)

\* C2: the path set_dest_path returns names no entry that exists in the
\* filesystem it was called on.
C2_ReturnedPathIsFree ==
    dest.pc = "returned" => ~exists(dest.fs, dest.result)

\* The reference resolver: base+ext when it is free in the directory,
\* otherwise the variant with the smallest k >= 1 that is free.
RECURSIVE SmallestFree(_, _, _, _, _)
SmallestFree(f, path, file_name, ext, k) ==
    IF ~exists(f, join(path, Numbered(file_name, k) \o ext))
    THEN join(path, Numbered(file_name, k) \o ext)
    ELSE SmallestFree(f, path, file_name, ext, k + 1)

ReferenceDestPath(f, path, file_name, ext) ==
    IF ~exists(f, join(path, file_name \o ext))
    THEN join(path, file_name \o ext)
    ELSE SmallestFree(f, path, file_name, ext, 1)

\* C3: set_dest_path returns what the reference resolver returns.
C3_EqualsReference ==
    dest.pc = "returned" =>
        dest.result = ReferenceDestPath(dest.fs, dest.path, dest.file_name,
                                        dest.ext)

-----------------------------------------------------------------------------
(* Properties of move_files with a short range (SpecExhaust) *)

\* a_b.jpg and every numbered variant the range reaches exist in images.
AllVariantsTaken(f) ==
    /\ exists(f, <<N_images, B_ab \o E_jpg>>)
    /\ \A k \in 1..(AttemptStop - 1) :
          exists(f, <<N_images, Numbered(B_ab, k) \o E_jpg>>)

\* Every string the loop of set_dest_path tests names an existing entry, so
\* the loop runs to the end of its range.
RangeExhausted(f) ==
    \A k \in 1..(AttemptStop - 1) :
        exists(f, Glue(<<N_images>>, Numbered(B_ab, k) \o E_jpg))

\* C16: when a_b.jpg and all its variants up to the bound exist in images
\* (and the loop of the resolver runs to the end of its range) and move_files
\* has handled "a b.jpg", no rename was called on an existing path, the file
\* is where it was, every entry that existed is unchanged, the task has not
\* failed, and when the task is done v.mp4 has been moved.
C16_ExhaustionSkips ==
    (/\ AllVariantsTaken(dest.fs0) /\ RangeExhausted(dest.fs0)
     /\ Len(dest.dests) >= 1) =>
        /\ dest.onto = 0
        /\ \A q \in DOMAIN dest.fs0 \ {<<F_v>>} :
              q \in DOMAIN dest.fs /\ dest.fs[q] = dest.fs0[q]
        /\ dest.task.st # "failed"
        /\ dest.task.st = "done" =>
              /\ <<N_video, F_v>> \in DOMAIN dest.fs
              /\ dest.fs[<<N_video, F_v>>] = dest.fs0[<<F_v>>]

-----------------------------------------------------------------------------
(* Properties of normalize (SpecNorm) *)

\* C8: normalize is idempotent: normalizing a normalized name changes nothing.
C8_Idempotent == norm.pc = "twice" => norm.twice = norm.once

\* A name with a Polish letter and a run of two non-word characters has been
\* normalized twice, and the first pass changed it.
C8_Witness ==
    /\ norm.pc = "twice"
    /\ norm.name = <<"a_ogonek", " ", "-">>
    /\ norm.once = <<"a", "_">>

\* C9: the output of normalize holds only ASCII letters, digits and
\* underscores.
C9_OutputIsAsciiWord ==
    norm.pc # "start" => \A k \in 1..Len(norm.once) : norm.once[k] \in AsciiWord

-----------------------------------------------------------------------------
(* Properties of get_path (SpecCli) *)

\* C10: get_path exits exactly when the number of arguments is not one or the
\* argument names no existing directory; otherwise it returns the argument.
C10_ExitIffBadUsage ==
    cli.pc = "done" =>
        /\ cli.out.exit <=> (Len(cli.args) # 1 \/ ~world_isdir(cli.args[1]))
        /\ ~cli.out.exit => cli.out.path = cli.args[1]

-----------------------------------------------------------------------------
(* Properties of sort_folder (Spec) *)

Range(q) == {q[k] : k \in DOMAIN q}

\* The files the tree held before the first run.
OriginalFiles == {p \in DOMAIN tree0 : tree0[p].kind = "file"}

\* File p of the original tree is still a file of its own somewhere.
StillExists(p) == \E q \in DOMAIN fs : fs[q] = tree0[p]

\* C1: no rename is called while its destination exists, and every file the
\* tree held before the run still exists as a file of its own.
C1_NoOverwrite ==
    /\ hist.onto = {}
    /\ \A p \in OriginalFiles : StillExists(p)

\* The original files directly in directory d that move_files gives the
\* category c, the normalized name b and the extension e.
Group(d, c, b, e) ==
    {p \in OriginalFiles :
        /\ dirname(p) = d
        /\ splitext_ext(basename(p)) = e
        /\ file_type_of(e) = c
        /\ normalize(splitext_root(basename(p))) = b}

\* The names base+ext and base_i+ext.
IsVariant(name, b, e) ==
    \/ name = b \o e
    \/ \E k \in 1..(Cardinality(DOMAIN fs) + 1) : name = Numbered(b, k) \o e

\* C4: when the first run has returned, the files of a directory that share
\* normalized name and categorized extension (two or more of them) are each
\* at a path of their own in the category directory, named base+ext or
\* base_i+ext, and each of these moves is recorded under the category in the
\* report of the directory.
C4_CollidingFilesAllMoved ==
    (phase = "returned" /\ run = 1) =>
        \A r \in Range(info_for_report) : \A p0 \in OriginalFiles :
            LET d == r.path
                e == splitext_ext(basename(p0))
                c == file_type_of(e)
                b == normalize(splitext_root(basename(p0)))
                G == Group(d, c, b, e)
            IN  (dirname(p0) = d /\ c # N_unsorted /\ Cardinality(G) >= 2) =>
                    \A p \in G :
                        \E q \in Children(fs, join(d, c)) :
                            /\ fs[q] = tree0[p]
                            /\ IsVariant(basename(q), b, e)
                            /\ \E m \in Range(r.paths[c]) : m.to = q

\* C5: a directory that prepare_folder deleted as empty is not put in a list
\* of subdirectories, is not scanned afterwards, is the argument of no task,
\* and no task fails on it.
C5_DeletedDirNotProcessed ==
    \A x \in hist.deleted :
        x[1] = run =>
            /\ x[2] \notin Range(subdirectories)
            /\ \A i \in Idx :
                /\ x[2] \notin Range(tasks[i].subs)
                /\ tasks[i].arg # x[2]
            /\ \A pf \in Range(paths_and_files_to_sort) : pf.path # x[2]


\* The unsorted files of the model: no extension, an extension in upper
\* case, and a file that bears the name of a category directory.
UnsortedNames == {F_xy, F_AJ, N_images}

\* The tree is a round-trip tree: the sorted directory holds no directory,
\* exactly one file of each of the five categories, and otherwise only
\* unsorted files.
IsRoundTripTree ==
    LET below == DOMAIN tree0 \ {<<>>}
        names == {basename(p) : p \in below}
    IN  /\ \A p \in below : Len(p) = 1 /\ tree0[p].kind = "file"
        /\ RoundTripFiles \subseteq names
        /\ names \ RoundTripFiles \subseteq UnsortedNames

\* Where each categorized file of the model's round-trip trees belongs.
RoundTripPlace(name) ==
    CASE name = F_ab1 -> <<N_images, F_ab>>
      [] name = F_v   -> <<N_video, F_v>>
      [] name = F_d   -> <<N_documents, F_d>>
      [] name = F_s   -> <<N_audio, F_s>>
      [] name = F_n   -> <<N_archives, <<"n", "_", "n", ".", "z", "i", "p">>>>

\* The outcome of the round trip: the subdirectories are the five category
\* directories, each holds exactly one file, which is the original file of
\* that category under its normalized name, and no categorized file is left
\* directly in the sorted directory.
RoundTripOutcome ==
    /\ {p \in Children(fs, <<>>) : fs[p].kind = "dir"}
         = {<<c>> : c \in ExcludedNames}
    /\ \A n \in RoundTripFiles :
            LET q == RoundTripPlace(n) IN
            /\ q \in DOMAIN fs
            /\ fs[q] = tree0[<<n>>]
            /\ {x \in Children(fs, dirname(q)) : fs[x].kind = "file"} = {q}
            /\ <<n>> \notin DOMAIN fs

\* A task has raised something other than the ReadError of an archive that
\* cannot be unpacked.
FailedOtherwise ==
    \E i \in Idx : tasks[i].st = "failed" /\ tasks[i].err # "ReadError"

NoFileNamedAsCategory ==
    \A p \in OriginalFiles : basename(p) \notin ExcludedNames

UnsortedFiles == {p \in OriginalFiles : basename(p) \in UnsortedNames}

StoppedOnFormatOnly ==
    /\ phase = "aborted"
    /\ \A i \in Idx : tasks[i].fn = "move_files"
    /\ \A i \in Idx : tasks[i].st = "failed" => tasks[i].err = UnknownFormat

\* C12: when the first run is over (it has returned, or it has stopped on
\* nothing but a file with an archive extension that unpack_archive refuses),
\* every file with an archive extension that stood directly in a processed
\* directory D is at D/archives/<normalized base><ext>, and the directory
\* D/archives/<normalized base> exists and holds the extracted content.
C12_ArchiveMovedAndExtracted ==
    (run = 1 /\ (phase = "returned" \/ StoppedOnFormatOnly)) =>
        \A pf \in Range(paths_and_files_to_sort) : \A p \in OriginalFiles :
            LET ext  == splitext_ext(basename(p))
                base == normalize(splitext_root(basename(p)))
                dir  == join(pf.path, N_archives)
            IN  (dirname(p) = pf.path /\ file_type_of(ext) = N_archives) =>
                    /\ join(dir, base \o ext) \in DOMAIN fs
                    /\ fs[join(dir, base \o ext)] = tree0[p]
                    /\ isdir(fs, join(dir, base))
                    /\ Children(fs, join(dir, base)) # {}

\* The tasks of the stage sort_folder is in: the scan of the root, the scans
\* of the directories of one level (those at depth level), or the moves.
StageTasksOnly(ph, lv, ts) ==
    \A i \in DOMAIN ts :
        /\ ph = "root" => ts[i].fn = "prepare_folder" /\ ts[i].arg = <<>>
        /\ ph = "levels" =>
              ts[i].fn = "prepare_folder" /\ Len(ts[i].arg) = lv /\ lv >= 1
        /\ ph = "sort" => ts[i].fn = "move_files"

\* A task in the state it is in before a worker takes it.
NotStarted(t) == t.st = "pending"

\* C13: the stages are strict. In every step, the tasks that exist afterwards
\* belong to one stage (so no scan of another level and no move is under way
\* beside the scans of a level), and when the step goes to the scans of the
\* next level or to the moves, every task of the stage it leaves has finished
\* and every task of the stage it enters has still to start.
C13_StageBarrier ==
    [][ /\ StageTasksOnly(phase', level', tasks')
        /\ ((phase' \in {"levels", "sort"}) /\ (phase' # phase \/ level' # level))
             => /\ \A i \in DOMAIN tasks : tasks[i].st = "done"
                /\ \A i \in DOMAIN tasks' : NotStarted(tasks'[i])
                /\ phase' = "levels" => level' = level + 1
      ]_vars

\* The moves are under way after the scans of the root, of level 1 and of
\* level 2.
C13_Witness ==
    /\ phase = "sort" /\ level = 2
    /\ Len(tasks) >= 3
    /\ \E i \in Idx : tasks[i].st = "running"
    /\ {<<run, <<>>>>, <<run, <<D_sub>>>>, <<run, <<D_sub, D_deep>>>>}
          \subseteq hist.scanned

\* A name of path p is one of the five category names.
HasCategoryName(p) == \E k \in 1..Len(p) : p[k] \in ExcludedNames

\* The directories of the original tree that hold something, bear a category
\* name, and stand in a directory that does not.
NonEmptyCategoryDirs ==
    {p \in DOMAIN tree0 :
        /\ p # <<>>
        /\ tree0[p].kind = "dir"
        /\ basename(p) \in ExcludedNames
        /\ ~HasCategoryName(dirname(p))
        /\ Children(tree0, p) # {}}

\* C14 as stated: when the first run has returned, every non-empty directory
\* with a category name is still there under its name, has been scanned, and
\* its files were given to a move_files task.
C14_CategoryDirScanned ==
    (run = 1 /\ phase = "returned") =>
        \A p \in NonEmptyCategoryDirs :
            /\ isdir(fs, p)
            /\ <<1, p>> \in hist.scanned
            /\ \E r \in Range(info_for_report) : r.path = p

\* C14 amended: a non-empty directory with a category name is not renamed
\* and is not returned in a subdirectory list: it stays a directory under its
\* name, and no path with a category name in it is ever put in a list of
\* subdirectories, scanned, made the directory of a move_files task, or the
\* place a file is moved from.
C14_CategoryDirSkipped ==
    /\ \A p \in NonEmptyCategoryDirs : isdir(fs, p)
    /\ \A p \in Range(subdirectories) : ~HasCategoryName(p)
    /\ \A i \in Idx :
          /\ ~HasCategoryName(tasks[i].arg)
          /\ \A p \in Range(tasks[i].subs) : ~HasCategoryName(p)
    /\ \A pf \in Range(paths_and_files_to_sort) : ~HasCategoryName(pf.path)
    /\ \A x \in hist.scanned : ~HasCategoryName(x[2])
    /\ \A m \in hist.moves : ~HasCategoryName(dirname(m.old))

\* The first run has returned for a tree with a directory documents that
\* holds a file and a subdirectory with a file: both files are where they
\* were, and only the sorted directory was scanned.
C14_Witness ==
    /\ run = 1 /\ phase = "returned"
    /\ <<N_documents>> \in NonEmptyCategoryDirs
    /\ fs[<<N_documents, F_d>>] = tree0[<<N_documents, F_d>>]
    /\ fs[<<N_documents, D_deep, F_s>>] = tree0[<<N_documents, D_deep, F_s>>]
    /\ hist.scanned = {<<1, <<>>>>}
    /\ hist.moves # {}

\* The directories directly in directory d of the original tree that hold
\* something, bear no category name, and whose name normalize changes.
DirsToRename(d) ==
    {p \in Children(tree0, d) :
        /\ tree0[p].kind = "dir"
        /\ Children(tree0, p) # {}
        /\ basename(p) \notin ExcludedNames
        /\ normalize(basename(p)) # basename(p)}

\* C15: when a prepare_folder task of the first run is over, it has not
\* raised, and every directory it had to rename (no sibling file bearing the
\* new name) is, with what it held, under the normalized name and no longer
\* under the original one, and the new path is in the list the task returns.
C15_DirRenamed ==
    \A i \in Idx :
        (run = 1 /\ tasks[i].fn = "prepare_folder"
                /\ tasks[i].st \in {"done", "failed"}) =>
            \A p \in DirsToRename(tasks[i].arg) :
                LET new == join(tasks[i].arg, normalize(basename(p)))
                IN  (new \notin DOMAIN tree0) =>
                        /\ tasks[i].st = "done"
                        /\ isdir(fs, new) /\ fs[new].id = p
                        /\ \A q \in Children(tree0, p) :
                              join(new, basename(q)) \in DOMAIN fs
                        /\ p \notin DOMAIN fs
                        /\ new \in Range(tasks[i].subs)

\* What the calls of os and shutil raise when the filesystem or a file is
\* not as they need it.
FilesystemErrors ==
    {"FileNotFoundError", "NotADirectoryError", "IsADirectoryError",
     "FileExistsError", "OSError", "ReadError", UnknownFormat}

FilesystemErrorRaised ==
    \E i \in Idx : tasks[i].st = "failed" /\ tasks[i].err \in FilesystemErrors

\* C17: unless a filesystem error is raised, sort_folder eventually returns
\* (the level loop has ended and the sort pass has run), and no directory is
\* scanned twice in a run.
C17_Terminates ==
    /\ <>(phase = "returned" \/ FilesystemErrorRaised)
    /\ [](~hist.rescanned)

\* C18: when the first run has returned, every move of a file has, in the
\* report of its directory and under the category it was moved to, a record
\* that names the path the file had before the move and the path it was
\* moved to; and every record under unsorted is the path of a file of the
\* directory, as it was before the run.
C18_RecordsFaithful ==
    (run = 1 /\ phase = "returned") =>
        \A r \in Range(info_for_report) :
            /\ \A mv \in hist.moves :
                  dirname(mv.old) = r.path =>
                      \E m \in Range(r.paths[mv.new[Len(mv.new) - 1]]) :
                          m.from = mv.old /\ m.to = mv.new
            /\ \A m \in Range(r.paths[N_unsorted]) :
                  /\ m.from \in OriginalFiles
                  /\ dirname(m.from) = r.path

\* C19: an archive is extracted only after it has been moved: while a
\* move_files task stands at an archive it has extracted, and when it has
\* failed extracting one, the file is no longer at its original path.
C19_MoveBeforeExtract ==
    \A i \in Idx :
        (/\ tasks[i].fn = "move_files"
         /\ tasks[i].files # <<>>
         /\ \/ tasks[i].st = "running" /\ tasks[i].unpacked
            \/ tasks[i].st = "failed"
                 /\ tasks[i].err \in {"ReadError", UnknownFormat}) =>
            ~exists(fs, join(tasks[i].arg, Head(tasks[i].files).name))

\* The filesystem the current run started from.
RunStart == IF run = 1 THEN tree0 ELSE hist.fs1

\* What the scans of a run leave of filesystem f, whatever the order of their
\* steps: f without the directories that were empty in a scanned directory.
AfterScans(f) ==
    Restrict(f, {p \in DOMAIN f :
                    ~(/\ p # <<>>
                      /\ f[p].kind = "dir"
                      /\ Children(f, p) = {}
                      /\ <<run, dirname(p)>> \in hist.scanned)})

\* move_files for task t run alone from filesystem f to its end: what it
\* leaves of f.
RECURSIVE AloneTask(_, _, _)
AloneTask(f, plat, t) ==
    IF t.files = <<>> THEN f
    ELSE LET file == Head(t.files)
             u == IF file_type_of(splitext_ext(file.name)) = N_archives
                  THEN unpack_archive(f, join(t.arg, file.name),
                           join(join(t.arg, N_archives),
                                normalize(splitext_root(file.name))))
                  ELSE Ok(f)
             r == MoveItem(u.fs, plat, [t EXCEPT !.st = "running"])
         IN  IF u.err # "" \/ r.task.st = "failed" THEN r.fs
             ELSE AloneTask(r.fs, plat, r.task)

\* The move_files tasks ts, from the k-th on, run one after the other.
RECURSIVE OneByOne(_, _, _, _)
OneByOne(f, plat, ts, k) ==
    IF k > Len(ts) THEN f
    ELSE OneByOne(AloneTask(f, plat, ts[k]), plat, ts, k + 1)

\* C20: the tasks of a pool write in disjoint sets of directories: no
\* directory has entries made, removed or replaced by two tasks of the pool.
\* Hence the file a running move_files task is about to handle is where the
\* scan saw it, no move_files task fails because its file is missing, the
\* scans leave the same filesystem whatever their interleaving, and a run
\* that returns leaves the filesystem its move_files tasks leave when run
\* one after the other.
C20_TasksDisjoint ==
    /\ \A w1, w2 \in hist.writes : w1[2] = w2[2] => w1[1] = w2[1]
    /\ \A i \in Idx :
          tasks[i].fn = "move_files" =>
              /\ tasks[i].st = "running" =>
                    /\ exists(fs, join(tasks[i].arg, Head(tasks[i].files).name))
                    /\ ~isdir(fs, join(tasks[i].arg, Head(tasks[i].files).name))
              /\ tasks[i].err # "FileNotFoundError"
    /\ phase = "sort" => hist.fsSort = AfterScans(RunStart)
    /\ phase = "returned" =>
          fs = OneByOne(hist.fsSort, platform,
                        MoveTasks(paths_and_files_to_sort), 1)

\* Two move_files tasks are at work at once: each has moved a file and has
\* another file to handle.
C20_Witness ==
    /\ phase = "sort"
    /\ \E i, j \in Idx :
          /\ i # j
          /\ tasks[i].st = "running" /\ tasks[j].st = "running"
          /\ \E m \in hist.moves : m.run = run /\ dirname(m.old) = tasks[i].arg
          /\ \E m \in hist.moves : m.run = run /\ dirname(m.old) = tasks[j].arg
          /\ {i, j} \subseteq {w[1] : w \in hist.writes}

\* The files the first run moved that were where it moved them when it ended.
PlacedByFirstRun ==
    {m \in hist.moves : /\ m.run = 1
                        /\ m.new \in DOMAIN hist.fs1
                        /\ hist.fs1[m.new].id = m.id}

\* A category directory directly inside a category directory.
IsNestedCategoryDir(f, p) ==
    /\ Len(p) >= 2
    /\ f[p].kind = "dir"
    /\ p[Len(p)] \in ExcludedNames
    /\ p[Len(p) - 1] \in ExcludedNames

\* C7: during a second run on the tree the first run sorted, every file the
\* first run placed in a category directory stays where it was placed, and no
\* category directory appears inside a category directory.
C7_SecondRunStable ==
    run = 2 =>
        /\ \A m \in PlacedByFirstRun :
              m.new \in DOMAIN fs /\ fs[m.new] = hist.fs1[m.new]
        /\ \A p \in DOMAIN fs \ DOMAIN hist.fs1 : ~IsNestedCategoryDir(fs, p)

\* The second run has returned after scanning a subdirectory too, on a tree
\* in which the first run placed files.
C7_Witness ==
    /\ run = 2 /\ phase = "returned"
    /\ Len(info_for_report) >= 2
    /\ PlacedByFirstRun # {}

====
